---- MODULE Spec2Model ----
(***************************************************************************)
(* branch-time (src/src/main.rs): resolve the commits of <to_tag> that are *)
(* not reachable from <from_tag>, format one line per commit (with the     *)
(* branch time of the pull request named in the commit summary), join the  *)
(* lines and write them to /tmp/branch-times-<from>-<to>.csv.              *)
(*                                                                         *)
(* Text is modelled as a sequence of character tokens ("(", "#", "1", ...).*)
(* The commit graph, the refs and the environment are drawn in Init; the   *)
(* summary of a commit and the reply of the code host are read when the    *)
(* commit is walked.                                                       *)
(***************************************************************************)
EXTENDS Integers, Sequences, FiniteSets, TLC

\* ------------------------------------------------------------------ bounds
NumCommits == 3        \* commits in the repository: 1..NumCommits
MaxRespLen == 2        \* longest commit list the code host returns
MaxChunks  == 3        \* chunks a message given to the extraction is made of

Commits == 1..NumCommits
NoCommit == 0          \* a ref string that resolves to nothing

VARIABLES
    parents,      \* parents[c]: the parent commits of c (the repository's graph)
    ctime,        \* ctime[c]: commit.time().seconds()
    fromRef,      \* what <from_tag> resolves to (NoCommit: revparse fails)
    toRef,        \* what <to_tag> resolves to
    token,        \* TRUE iff GITHUB_STATS_TOKEN is set in the environment
    pc,           \* position of main / get_commit_log
    why,          \* the reason of the panic, "" while none
    opened,       \* Repository::open has returned Ok
    f, t, base,   \* the locals of get_commit_log
    walk,         \* the commits the revwalk yields, in order
    idx,          \* index in walk of the next commit the iterator yields
    rows,         \* commit_list so far
    trace,        \* per row: the summary read and what the correlation gave
    last,         \* the inputs of the last commit_to_formatted_output call
    output,       \* processed_commits
    file,         \* "none" | "created" | "written"
    content,      \* bytes of the output file
    xpc, xmsg, xres   \* the extraction on its own: position, message, result

vars == <<parents, ctime, fromRef, toRef, token, pc, why, opened, f, t, base,
          walk, idx, rows, trace, last, output, file, content, xpc, xmsg, xres>>

repoVars == <<parents, ctime, fromRef, toRef, token>>
xVars == <<xpc, xmsg, xres>>

\* ------------------------------------------------------------- text helpers
Digit == <<"0", "1", "2", "3", "4", "5", "6", "7", "8", "9">>
IsDigit(ch) == \E d \in 1..10 : Digit[d] = ch

Comma == ","
Newline == "\n"
Unknown == <<"unknown">>

RECURSIVE NatToStr(_)
NatToStr(n) ==
    IF n < 10 THEN <<Digit[n + 1]>>
    ELSE NatToStr(n \div 10) \o <<Digit[(n % 10) + 1]>>

\* format!("{}", i64)
IntToStr(n) == IF n < 0 THEN <<"-">> \o NatToStr(0 - n) ELSE NatToStr(n)

\* commit.id().to_string(): the hex name of the object (shortened)
OidToStr(c) == <<"c">> \o NatToStr(c)

\* Vec<String>::join(sep)
RECURSIVE Join(_, _)
Join(list, sep) ==
    IF list = <<>> THEN <<>>
    ELSE IF Len(list) = 1 THEN list[1]
    ELSE list[1] \o <<sep>> \o Join(Tail(list), sep)

\* ------------------------------------------------- extract_pr_from_commit_message
None == [some |-> FALSE, val |-> <<>>]
Some(v) == [some |-> TRUE, val |-> v]

\* length of the longest run of digits of msg that starts at position j (\d+ is greedy)
RECURSIVE DigitRun(_, _)
DigitRun(msg, j) ==
    IF j <= Len(msg) /\ IsDigit(msg[j]) THEN 1 + DigitRun(msg, j + 1) ELSE 0

\* the regex \(#(\d+)\) tried at start position i
MatchAt(msg, i) ==
    LET n == DigitRun(msg, i + 2) IN
    /\ i + 1 <= Len(msg)
    /\ msg[i] = "("
    /\ msg[i + 1] = "#"
    /\ n >= 1
    /\ i + 2 + n <= Len(msg)
    /\ msg[i + 2 + n] = ")"

\* mutant: the rightmost match instead of the leftmost
RECURSIVE CapturesLast(_, _)
CapturesLast(msg, i) ==
    IF i > Len(msg) THEN None
    ELSE LET later == CapturesLast(msg, i + 1) IN
         IF later.some THEN later
         ELSE IF MatchAt(msg, i)
              THEN Some(SubSeq(msg, i + 2, i + 1 + DigitRun(msg, i + 2)))
              ELSE None

\* re.captures(commit_message): start positions are tried left to right
RECURSIVE Captures(_, _)
Captures(msg, i) ==
    IF i > Len(msg) THEN None
    ELSE IF MatchAt(msg, i)
         THEN Some(SubSeq(msg, i + 2, i + 1 + DigitRun(msg, i + 2)))
         ELSE Captures(msg, i + 1)

\* mutant: the pattern #(\d+), without the parentheses
RECURSIVE CapturesHash(_, _)
CapturesHash(msg, i) ==
    IF i > Len(msg) THEN None
    ELSE IF msg[i] = "#" /\ DigitRun(msg, i + 1) >= 1
         THEN Some(SubSeq(msg, i + 1, i + DigitRun(msg, i + 1)))
         ELSE CapturesHash(msg, i + 1)

extract_pr_hash_only(commit_message) == CapturesHash(commit_message, 1)

extract_pr_from_commit_message(commit_message) == Captures(commit_message, 1)

\* ------------------------------------------------- fetch_github_info_for_commit
\* author.date strings of the reply: 1970-01-01T00:<min>:<sec>Z, or not a date
DateStrings ==
    { [valid |-> TRUE,  min |-> 0, sec |-> 2],
      [valid |-> TRUE,  min |-> 1, sec |-> 0],
      [valid |-> FALSE, min |-> 0, sec |-> 0] }

\* date.parse::<DateTime<Utc>>() followed by .timestamp()
ParseDate(d) == [ok |-> d.valid, ts |-> d.min * 60 + d.sec]

RECURSIVE SeqsUpTo(_, _)
SeqsUpTo(S, n) ==
    IF n = 0 THEN {<<>>}
    ELSE LET shorter == SeqsUpTo(S, n - 1) IN
         shorter \cup {Append(q, x) : q \in {r \in shorter : Len(r) = n - 1}, x \in S}

\* what reqwest::get(url)?.json::<Vec<GithubCommit>>()? meets
Responses ==
    {[status |-> "ok", body |-> b] : b \in SeqsUpTo(DateStrings, MaxRespLen)}
    \cup {[status |-> "neterr", body |-> <<>>], [status |-> "badjson", body |-> <<>>]}

\* no request was made
NoResponse == [status |-> "unused", body |-> <<>>]

OkVal(some, v) == [ok |-> TRUE, some |-> some, val |-> v, err |-> ""]
ErrVal(e) == [ok |-> FALSE, some |-> FALSE, val |-> 0, err |-> e]

\* mutant: the token is not looked at
fetch_without_token(commit_ts, pr_number, resp) ==
    IF resp.status = "neterr" THEN ErrVal("network")
    ELSE IF resp.status = "badjson" THEN ErrVal("json")
    ELSE IF resp.body = <<>> THEN OkVal(FALSE, 0)
    ELSE LET dt == ParseDate(resp.body[1]) IN
         IF ~dt.ok THEN ErrVal("date")
         ELSE OkVal(TRUE, commit_ts - dt.ts)

\* mutant: json[0] instead of json.get(0), an empty list is an error
fetch_index_first(commit_ts, pr_number, resp) ==
    IF ~token THEN ErrVal("token")
    ELSE IF resp.status = "neterr" THEN ErrVal("network")
    ELSE IF resp.status = "badjson" THEN ErrVal("json")
    ELSE IF resp.body = <<>> THEN ErrVal("index")
    ELSE LET dt == ParseDate(resp.body[1]) IN
         IF ~dt.ok THEN ErrVal("date")
         ELSE OkVal(TRUE, commit_ts - dt.ts)

\* mutant: the earliest author date of the list instead of the one at index 0
fetch_earliest(commit_ts, pr_number, resp) ==
    IF ~token THEN ErrVal("token")
    ELSE IF resp.status = "neterr" THEN ErrVal("network")
    ELSE IF resp.status = "badjson" THEN ErrVal("json")
    ELSE IF resp.body = <<>> THEN OkVal(FALSE, 0)
    ELSE LET dt == ParseDate(resp.body[1])
             valid == {i \in DOMAIN resp.body : ParseDate(resp.body[i]).ok}
             e == CHOOSE i \in valid : \A j \in valid :
                      ParseDate(resp.body[i]).ts <= ParseDate(resp.body[j]).ts
         IN  IF ~dt.ok THEN ErrVal("date")
             ELSE OkVal(TRUE, commit_ts - ParseDate(resp.body[e]).ts)

fetch_github_info_for_commit(commit_ts, pr_number, resp) ==
    IF ~token THEN ErrVal("token")
    ELSE IF resp.status = "neterr" THEN ErrVal("network")
    ELSE IF resp.status = "badjson" THEN ErrVal("json")
    ELSE IF resp.body = <<>> THEN OkVal(FALSE, 0)
    ELSE LET dt == ParseDate(resp.body[1]) IN
         IF ~dt.ok THEN ErrVal("date")
         ELSE OkVal(TRUE, commit_ts - dt.ts)

\* ------------------------------------------------- commit_to_formatted_output
\* mutant: the first two values in the other order
FormatRowSwapped(sha, commit_ts, bt, message) ==
    commit_ts \o <<Comma>> \o sha \o <<Comma>> \o bt \o <<Comma>> \o message

\* format!("{},{},{},{}", sha, commit_ts, bt, message)
FormatRow(sha, commit_ts, bt, message) ==
    sha \o <<Comma>> \o commit_ts \o <<Comma>> \o bt \o <<Comma>> \o message

RowOk(r) == [ok |-> TRUE, row |-> r, err |-> ""]
RowPanic(e) == [ok |-> FALSE, row |-> <<>>, err |-> e]

\* mutant: a failed correlation gives an unknown row instead of a panic
commit_to_formatted_output_lenient(c, summary, resp) ==
    IF ~summary.has THEN RowPanic("summary")
    ELSE
    LET sha == OidToStr(c)
        commit_ts == ctime[c]
        message == summary.text
        pr == extract_pr_from_commit_message(message)
    IN  IF pr.some
        THEN LET branch_time == fetch_github_info_for_commit(commit_ts, pr.val, resp) IN
             IF branch_time.ok /\ branch_time.some
             THEN RowOk(FormatRow(sha, IntToStr(commit_ts), IntToStr(branch_time.val), message))
             ELSE RowOk(FormatRow(sha, IntToStr(commit_ts), Unknown, message))
        ELSE RowOk(FormatRow(sha, IntToStr(commit_ts), Unknown, message))

\* summary: what commit.summary() returns, [has |-> FALSE] when it is None
commit_to_formatted_output(c, summary, resp) ==
    IF ~summary.has THEN RowPanic("summary")
    ELSE
    LET sha == OidToStr(c)
        commit_ts == ctime[c]
        message == summary.text
        pr == extract_pr_from_commit_message(message)
    IN  IF pr.some
        THEN LET branch_time == fetch_github_info_for_commit(commit_ts, pr.val, resp) IN
             IF ~branch_time.ok THEN RowPanic(branch_time.err)
             ELSE IF branch_time.some
                  THEN RowOk(FormatRow(sha, IntToStr(commit_ts), IntToStr(branch_time.val), message))
                  ELSE RowOk(FormatRow(sha, IntToStr(commit_ts), Unknown, message))
        ELSE RowOk(FormatRow(sha, IntToStr(commit_ts), Unknown, message))

\* ------------------------------------------------- the repository (git2)
\* c and every commit reachable from it through parent links
RECURSIVE Closure(_)
Closure(S) ==
    LET next == S \cup UNION {parents[c] : c \in S} IN
    IF next = S THEN S ELSE Closure(next)

Ancestors(c) == Closure({c})

\* repo.merge_base(one, two): the best common ancestors; git2 returns one of them
MergeBases(one, two) ==
    LET common == Ancestors(one) \cap Ancestors(two) IN
    {b \in common : \A o \in common \ {b} : b \notin Ancestors(o)}

\* mutant: only the ancestors of the commit are hidden, not the commit
HideSetStrict(id) == Ancestors(id) \ {id}

\* revwalk.hide(id): git2 keeps the commit and all its ancestors out of the walk,
\* whether or not one of them was pushed
HideSet(id) == Ancestors(id)

Newest(S) == CHOOSE c \in S : \A o \in S : ctime[o] <= ctime[c]

\* the iteration of the revwalk: newest pending commit first, then its parents
RECURSIVE RevWalk(_, _, _, _)
RevWalk(pending, seen, hidden, out) ==
    IF pending = {} THEN out
    ELSE LET c == Newest(pending)
             more == (parents[c] \ seen) \ hidden
         IN  RevWalk((pending \ {c}) \cup more, seen \cup more, hidden, Append(out, c))

\* revwalk.push(t); revwalk.push(base); revwalk.hide(f); then iterate
WalkOf(pushed, hiddenRoot) ==
    LET hidden == HideSet(hiddenRoot)
        roots == pushed \ hidden
    IN  RevWalk(roots, roots, hidden, <<>>)

\* ------------------------------------------------- inputs
\* histories: a parent is an older object than its child
RECURSIVE GraphsOf(_)
GraphsOf(n) ==
    IF n = 0 THEN {<<>>}
    ELSE {Append(g, ps) : g \in GraphsOf(n - 1), ps \in SUBSET (1..(n - 1))}

Graphs == GraphsOf(NumCommits)

\* commit times: in the order of the history, or skewed against it
TimeProfiles == {[c \in Commits |-> c], [c \in Commits |-> NumCommits + 1 - c]}

\* what commit.summary() can give
Summaries ==
    { [has |-> FALSE, text |-> <<>>],
      [has |-> TRUE,  text |-> <<"#", "7", ",", "y">>],
      [has |-> TRUE,  text |-> <<"x", "(", "#", "1", "2", ")">>] }

NoCall == [c |-> NoCommit, summary |-> [has |-> FALSE, text |-> <<>>], resp |-> NoResponse]

\* the messages given to the extraction on its own: up to MaxChunks chunks
Chunks ==
    { <<"(">>, <<"#">>, <<"1">>, <<"2">>, <<")">>, <<"x">>,
      <<"(", "#", "1", ")">>, <<"(", "#", "2", ")">> }

RECURSIVE Concat(_)
Concat(ss) == IF ss = <<>> THEN <<>> ELSE ss[1] \o Concat(Tail(ss))

XMessages == {Concat(ss) : ss \in SeqsUpTo(Chunks, MaxChunks)}

\* ------------------------------------------------- main
Idle ==
    /\ pc = "idle" /\ why = "" /\ opened = FALSE
    /\ f = NoCommit /\ t = NoCommit /\ base = NoCommit
    /\ walk = <<>> /\ idx = 1 /\ rows = <<>> /\ trace = <<>> /\ last = NoCall
    /\ output = <<>> /\ file = "none" /\ content = <<>>

Init ==
    /\ parents \in Graphs
    /\ ctime \in TimeProfiles
    /\ fromRef \in Commits \cup {NoCommit}
    /\ toRef \in Commits \cup {NoCommit}
    /\ token \in BOOLEAN
    /\ pc = "open" /\ why = "" /\ opened = FALSE
    /\ f = NoCommit /\ t = NoCommit /\ base = NoCommit
    /\ walk = <<>> /\ idx = 1 /\ rows = <<>> /\ trace = <<>> /\ last = NoCall
    /\ output = <<>> /\ file = "none" /\ content = <<>>
    /\ xpc = "idle" /\ xmsg = <<>> /\ xres = None

\* panic!, .unwrap() on an Err, .expect() on an Err: the process ends
Panic(reason) == pc' = "panic" /\ why' = reason

\* get_repo_handle(path)
OpenRepo ==
    /\ pc = "open"
    /\ \E ok \in BOOLEAN :
         IF ok THEN opened' = TRUE /\ pc' = "revparse_from" /\ why' = why
               ELSE opened' = opened /\ Panic("open")
    /\ UNCHANGED <<repoVars, f, t, base, walk, idx, rows, trace, last, output,
                   file, content, xVars>>

\* let f = repo.revparse_single(from)?;
RevparseFrom ==
    /\ pc = "revparse_from"
    /\ IF fromRef = NoCommit
       THEN f' = f /\ Panic("revparse")
       ELSE f' = fromRef /\ pc' = "revparse_to" /\ why' = why
    /\ UNCHANGED <<repoVars, opened, t, base, walk, idx, rows, trace, last, output,
                   file, content, xVars>>

\* let t = repo.revparse_single(to)?;
RevparseTo ==
    /\ pc = "revparse_to"
    /\ IF toRef = NoCommit
       THEN t' = t /\ Panic("revparse")
       ELSE t' = toRef /\ pc' = "setup" /\ why' = why
    /\ UNCHANGED <<repoVars, opened, f, base, walk, idx, rows, trace, last, output,
                   file, content, xVars>>

\* revwalk.push(t); merge_base(f, t)?; find_object(base)?; revwalk.push(base);
\* revwalk.hide(f)
SetupWalk ==
    /\ pc = "setup"
    /\ IF MergeBases(f, t) = {}
       THEN UNCHANGED <<base, walk>> /\ Panic("merge_base")
       ELSE /\ \E b \in MergeBases(f, t) :
                 /\ base' = b
                 /\ walk' = WalkOf({t, b}, f)
            /\ pc' = "walk" /\ why' = why
    /\ UNCHANGED <<repoVars, opened, f, t, idx, rows, trace, last, output,
                   file, content, xVars>>

\* what the correlation of one commit came to
Kind(summary, resp) ==
    IF ~extract_pr_from_commit_message(summary.text).some THEN "nopr"
    ELSE IF resp.body = <<>> THEN "empty" ELSE "latency"

\* the request of fetch_github_info_for_commit is made for this summary
Asked(summary) ==
    /\ summary.has
    /\ extract_pr_from_commit_message(summary.text).some
    /\ token

\* one step of revwalk.map(|c| commit_to_formatted_output(find_commit(c))).collect()
WalkNext ==
    /\ pc = "walk"
    /\ idx <= Len(walk)
    /\ \E summary \in Summaries :
       \E resp \in (IF Asked(summary) THEN Responses ELSE {NoResponse}) :
         LET c == walk[idx]
             r == commit_to_formatted_output(c, summary, resp)
         IN  /\ last' = [c |-> c, summary |-> summary, resp |-> resp]
             /\ IF r.ok
                THEN /\ rows' = Append(rows, r.row)
                     /\ trace' = Append(trace, [c |-> c, msg |-> summary.text,
                                                kind |-> Kind(summary, resp)])
                     /\ idx' = idx + 1
                     /\ UNCHANGED <<pc, why>>
                ELSE /\ UNCHANGED <<rows, trace, idx>>
                     /\ Panic(r.err)
    /\ UNCHANGED <<repoVars, opened, f, t, base, walk, output, file, content, xVars>>

\* let output = commit_list.join("\n"); Ok(output)
\* (the iterator is consumed: the arguments of its last call are gone)
Collect ==
    /\ pc = "walk"
    /\ idx > Len(walk)
    /\ output' = Join(rows, Newline)
    /\ last' = NoCall
    /\ pc' = "create"
    /\ UNCHANGED <<repoVars, why, opened, f, t, base, walk, idx, rows, trace,
                   file, content, xVars>>

\* File::create(&output_file)
CreateFile ==
    /\ pc = "create"
    /\ \E ok \in BOOLEAN :
         IF ok THEN file' = "created" /\ content' = <<>> /\ pc' = "write" /\ why' = why
               ELSE UNCHANGED <<file, content>> /\ Panic("create")
    /\ UNCHANGED <<repoVars, opened, f, t, base, walk, idx, rows, trace, last,
                   output, xVars>>

\* file.write_all(processed_commits.as_bytes())
WriteFile ==
    /\ pc = "write"
    /\ \E ok \in BOOLEAN :
         IF ok THEN file' = "written" /\ content' = output /\ pc' = "done" /\ why' = why
               ELSE UNCHANGED <<file, content>> /\ Panic("write")
    /\ UNCHANGED <<repoVars, opened, f, t, base, walk, idx, rows, trace, last,
                   output, xVars>>

Next ==
    \/ OpenRepo
    \/ RevparseFrom
    \/ RevparseTo
    \/ SetupWalk
    \/ WalkNext
    \/ Collect
    \/ CreateFile
    \/ WriteFile

Spec == Init /\ [][Next]_vars

\* ------------------------------------------------- the extraction on its own
InitExtract ==
    /\ parents = [c \in Commits |-> {}]
    /\ ctime = [c \in Commits |-> c]
    /\ fromRef = NoCommit /\ toRef = NoCommit /\ token = TRUE
    /\ Idle
    /\ xpc = "input" /\ xmsg \in XMessages /\ xres = None

Extract ==
    /\ xpc = "input"
    /\ xres' = extract_pr_from_commit_message(xmsg)
    /\ xpc' = "extracted"
    /\ UNCHANGED <<repoVars, pc, why, opened, f, t, base, walk, idx, rows, trace,
                   last, output, file, content, xmsg>>

NextExtract == Extract

SpecExtract == InitExtract /\ [][NextExtract]_vars

\* ------------------------------------------------- reading the report back
\* seq cut at every sep: the fields between the separators
RECURSIVE SplitOn(_, _)
SplitOn(seq, sep) ==
    IF \A i \in DOMAIN seq : seq[i] # sep THEN <<seq>>
    ELSE LET k == CHOOSE i \in DOMAIN seq :
                      seq[i] = sep /\ \A j \in 1..(i - 1) : seq[j] # sep
         IN  <<SubSeq(seq, 1, k - 1)>> \o SplitOn(SubSeq(seq, k + 1, Len(seq)), sep)

FieldsOf(row) == SplitOn(row, Comma)
LinesOf(text) == IF text = <<>> THEN <<>> ELSE SplitOn(text, Newline)

DigitValue(ch) == (CHOOSE d \in 1..10 : Digit[d] = ch) - 1

RECURSIVE StrToNat(_)
StrToNat(str) ==
    IF Len(str) = 1 THEN DigitValue(str[1])
    ELSE 10 * StrToNat(SubSeq(str, 1, Len(str) - 1)) + DigitValue(str[Len(str)])

IsNatStr(str) == str # <<>> /\ \A i \in DOMAIN str : IsDigit(str[i])
IsIntStr(str) == IsNatStr(str) \/ (str # <<>> /\ str[1] = "-" /\ IsNatStr(Tail(str)))
StrToInt(str) == IF str[1] = "-" THEN 0 - StrToNat(Tail(str)) ELSE StrToNat(str)

\* the occurrences <<start, number of digits>> of ( # digits ) in msg
Occurrences(msg) ==
    {o \in (DOMAIN msg) \X (DOMAIN msg) :
        /\ o[1] + o[2] + 2 <= Len(msg)
        /\ msg[o[1]] = "(" /\ msg[o[1] + 1] = "#"
        /\ \A j \in (o[1] + 2)..(o[1] + 1 + o[2]) : IsDigit(msg[j])
        /\ msg[o[1] + 2 + o[2]] = ")"}

HasPattern(msg) == Occurrences(msg) # {}

Started == base # NoCommit
SetOf(seq) == {seq[i] : i \in DOMAIN seq}
FileFailure == {"create", "write"}

\* ------------------------------------------------- C1
\* C1: whenever from and to have a merge base B, the walk (push T, push B,
\* hide F) yields B exactly once.
C1_DivergenceOnce ==
    Started => Cardinality({i \in DOMAIN walk : walk[i] = base}) = 1

\* ------------------------------------------------- C2
\* C2: when from and to are the same ref, the resolved range is exactly the
\* shared commit and the written report has exactly one row.
C2_SameRefOneCommit ==
    (Started /\ fromRef = toRef) =>
        /\ walk = <<f>>
        /\ (file = "written" => Len(LinesOf(content)) = 1)

\* ------------------------------------------------- C3
\* a history in which every commit from to back to the root has one parent at most
LinearTo(c) == \A a \in Ancestors(c) : Cardinality(parents[a]) <= 1
StrictlyAfter(from, to) == {c \in Ancestors(to) : c # from /\ from \in Ancestors(c)}

\* C3: in a linear history with from an ancestor of to, the walk yields exactly
\* the commits strictly after from through to, each once, and the written
\* report has that many rows, the row of a commit starting with its id.
C3_LinearRange ==
    (Started /\ LinearTo(t) /\ f \in Ancestors(t)) =>
        /\ SetOf(walk) = StrictlyAfter(f, t)
        /\ Len(walk) = Cardinality(StrictlyAfter(f, t))
        /\ (file = "written" =>
              /\ Len(LinesOf(content)) = Cardinality(StrictlyAfter(f, t))
              /\ \A i \in DOMAIN walk :
                    FieldsOf(LinesOf(content)[i])[1] = OidToStr(walk[i]))

C3_Witness ==
    /\ file = "written"
    /\ \A c \in Commits : parents[c] = IF c = 1 THEN {} ELSE {c - 1}
    /\ f = 1 /\ t = NumCommits
    /\ Len(walk) = NumCommits - 1

\* ------------------------------------------------- C4
\* C4 as stated: with the token unset the program aborts before the repository
\* is opened, before any commit is walked and before any row is produced.
C4_FatalAtStartup ==
    ~token => (~opened /\ ~Started /\ rows = <<>> /\ file = "none")

\* C4 amended: the token is read by each correlation call. With the token unset
\* every row produced so far belongs to a summary without a PR reference, the
\* first walked summary with a PR reference panics before the file is created,
\* and nothing else fails for the token; with the token set it never does.
C4_TokenReadPerCall ==
    /\ ~token =>
          /\ \A i \in DOMAIN trace : ~HasPattern(trace[i].msg)
          /\ (last.summary.has /\ HasPattern(last.summary.text)) =>
                (pc = "panic" /\ why = "token" /\ file = "none")
          /\ why = "token" =>
                (pc = "panic" /\ opened /\ HasPattern(last.summary.text))
          /\ file = "written" => Len(rows) = Len(walk)
    /\ token => why # "token"

C4_Witness ==
    ~token /\ pc = "panic" /\ why = "token" /\ opened /\ Len(rows) >= 1

\* ------------------------------------------------- C5
EmptyReply(call) == call.resp.status = "ok" /\ call.resp.body = <<>>

\* C5: a commit whose summary names a PR for which the code host returns an
\* empty list gets a row with the literal unknown as latency; the call does not
\* abort the run, and a written report holds the rows of all commits of the walk.
C5_EmptyListUnknown ==
    /\ EmptyReply(last) =>
          /\ HasPattern(last.summary.text)
          /\ rows # <<>>
          /\ trace[Len(trace)].c = last.c
          /\ FieldsOf(rows[Len(rows)])[3] = Unknown
          /\ pc = "walk"
    /\ \A i \in DOMAIN trace :
          trace[i].kind = "empty" =>
              /\ FieldsOf(rows[i])[3] = Unknown
              /\ file = "written" =>
                    /\ Len(LinesOf(content)) = Len(walk)
                    /\ \A j \in DOMAIN walk : LinesOf(content)[j] = rows[j]

C5_Witness ==
    /\ file = "written"
    /\ Len(trace) >= 2
    /\ trace[1].kind = "empty"
    /\ HasPattern(trace[1].msg)

\* ------------------------------------------------- C6
CorrelationFails(call) ==
    /\ call.summary.has
    /\ HasPattern(call.summary.text)
    /\ \/ ~token
       \/ call.resp.status \in {"neterr", "badjson"}
       \/ (call.resp.body # <<>> /\ ~call.resp.body[1].valid)

\* C6: a run in which a ref does not resolve, the refs have no common ancestor
\* or a correlation call fails ends in a panic without the output file being
\* created; a file exists only after every commit of the walk got its row.
C6_NoPartialSuccess ==
    /\ fromRef = NoCommit => pc \in {"open", "revparse_from", "panic"}
    /\ toRef = NoCommit => pc \in {"open", "revparse_from", "revparse_to", "panic"}
    /\ (pc \in {"walk", "create", "write", "done"} \/ Started) =>
          Ancestors(fromRef) \cap Ancestors(toRef) # {}
    /\ CorrelationFails(last) => (pc = "panic" /\ Len(rows) < Len(walk))
    /\ (pc = "panic" /\ why \notin FileFailure) => file = "none"
    /\ file # "none" =>
          /\ Started /\ f = fromRef /\ t = toRef
          /\ \A i \in DOMAIN trace : HasPattern(trace[i].msg) => token
          /\ Len(rows) = Len(walk)
          /\ \A i \in DOMAIN walk : trace[i].c = walk[i]

C6_Witness ==
    /\ pc = "panic" /\ why = "network" /\ file = "none"
    /\ Len(rows) >= 1 /\ Len(rows) < Len(walk)

\* ------------------------------------------------- C7
Header ==
    <<"commit_sha", Comma, "commit_ts", Comma, "pull_request", Comma,
      "branch_time_seconds", Comma, "author", Comma, "message">>

\* C7 as stated: the written report is a header row naming six columns, then
\* one row of six comma-separated fields per commit of the walk.
C7_HeaderAndSixFields ==
    file = "written" =>
        /\ Len(LinesOf(content)) = Len(walk) + 1
        /\ LinesOf(content)[1] = Header
        /\ \A i \in DOMAIN walk : Len(FieldsOf(LinesOf(content)[i + 1])) = 6

\* C7 amended: the written report has no header; it is one line per commit of the
\* walk, in the order of the walk, each made of four values joined by commas:
\* commit id, commit timestamp, latency in seconds or unknown, summary. The
\* summary is not escaped: a line has four comma-separated fields exactly when
\* the summary has no comma.
C7_FourValuesNoHeader ==
    file = "written" =>
        /\ Len(LinesOf(content)) = Len(walk)
        /\ \A i \in DOMAIN walk :
              LET fs == FieldsOf(LinesOf(content)[i]) IN
              /\ Len(fs) >= 4
              /\ fs[1] = OidToStr(walk[i])
              /\ IsNatStr(fs[2]) /\ StrToNat(fs[2]) = ctime[walk[i]]
              /\ (fs[3] = Unknown \/ IsIntStr(fs[3]))
              /\ Join(SubSeq(fs, 4, Len(fs)), Comma) = trace[i].msg
              /\ (Len(fs) = 4 <=> \A k \in DOMAIN trace[i].msg : trace[i].msg[k] # Comma)

C7_Witness ==
    /\ file = "written"
    /\ Len(walk) >= 2
    /\ \E i \in DOMAIN walk : Len(FieldsOf(LinesOf(content)[i])) = 4
    /\ \E i \in DOMAIN walk : Len(FieldsOf(LinesOf(content)[i])) = 5
    /\ \E i \in DOMAIN walk : IsIntStr(FieldsOf(LinesOf(content)[i])[3])

\* ------------------------------------------------- C8
\* C8 as stated: a summary without the pattern gives None, and its row has the
\* literal unknown both as pull_request (third field) and as branch_time_seconds
\* (fourth field).
C8_BothUnknown ==
    \A i \in DOMAIN trace :
        ~HasPattern(trace[i].msg) =>
            /\ extract_pr_from_commit_message(trace[i].msg) = None
            /\ FieldsOf(rows[i])[3] = Unknown
            /\ FieldsOf(rows[i])[4] = Unknown

\* C8 amended: a summary without the pattern gives None, and its row is commit
\* id, timestamp, one literal unknown (the latency), then the summary: the row
\* has no pull_request field.
C8_SingleUnknown ==
    \A i \in DOMAIN trace :
        ~HasPattern(trace[i].msg) =>
            LET fs == FieldsOf(rows[i]) IN
            /\ extract_pr_from_commit_message(trace[i].msg) = None
            /\ fs[1] = OidToStr(trace[i].c)
            /\ StrToNat(fs[2]) = ctime[trace[i].c]
            /\ fs[3] = Unknown
            /\ Join(SubSeq(fs, 4, Len(fs)), Comma) = trace[i].msg

C8_Witness ==
    /\ file = "written"
    /\ \E i \in DOMAIN trace : trace[i].msg = <<"#", "7", ",", "y">>

\* ------------------------------------------------- C9
\* C9: the extraction returns the digits of the leftmost occurrence of
\* ( # digits ) in the message, and None exactly when there is no occurrence.
C9_LeftmostMatch ==
    xpc = "extracted" =>
        LET occ == Occurrences(xmsg) IN
        IF occ = {} THEN xres = None
        ELSE LET first == CHOOSE o \in occ : \A p \in occ : o[1] <= p[1] IN
             /\ xres.some
             /\ xres.val = SubSeq(xmsg, first[1] + 2, first[1] + 1 + first[2])

C9_Witness ==
    /\ xpc = "extracted"
    /\ xmsg = <<"(", "#", "1", ")", "x", "(", "#", "2", ")">>
    /\ xres.some /\ xres.val = <<"1">>

\* ------------------------------------------------- C10
DatedReply(call) ==
    /\ call.resp.status = "ok"
    /\ call.resp.body # <<>>
    /\ call.resp.body[1].valid

EpochSeconds(d) == 60 * d.min + d.sec

\* C10: when the code host returns a non-empty list, the latency in the row is
\* the commit's timestamp minus the author date of the element at index 0 (the
\* list is not sorted); a negative latency is written like any other and does
\* not abort the run.
C10_LatencyFromIndexZero ==
    DatedReply(last) =>
        /\ rows # <<>>
        /\ trace[Len(trace)].c = last.c
        /\ IsIntStr(FieldsOf(rows[Len(rows)])[3])
        /\ StrToInt(FieldsOf(rows[Len(rows)])[3])
              = ctime[last.c] - EpochSeconds(last.resp.body[1])
        /\ pc = "walk"

C10_Witness ==
    /\ DatedReply(last)
    /\ Len(last.resp.body) >= 2
    /\ last.resp.body[2].valid
    /\ EpochSeconds(last.resp.body[2]) < EpochSeconds(last.resp.body[1])
    /\ ctime[last.c] < EpochSeconds(last.resp.body[1])
    /\ ctime[last.c] > EpochSeconds(last.resp.body[2])
    /\ pc = "walk"
    /\ Len(rows) >= 2

====
